---- MODULE Spec2Model ----
(***************************************************************************)
(* mass-heif-convert (src/src/main.rs): the worker tasks of                *)
(* spawn_file_processors, the unbounded mpsc channel, the aggregator loop  *)
(* event_loop with render_update, the Ctrl-C watcher task of main and      *)
(* main's epilogue (cursor Show, process exit).                            *)
(***************************************************************************)
EXTENDS Integers, Sequences, FiniteSets, TLC

(* ------------------------------ bounds -------------------------------- *)

\* Directory entries of the input directory (main.rs:182).
MaxDirs == 2

\* Files in one subdirectory (main.rs:197).
MaxFiles == 2

\* Files over all subdirectories, i.e. worker tasks spawned in one run.
MaxTasks == 2

\* Semaphore::new(MAX_FILE_HANDLES), main.rs:26 and :194.  The source sets 10;
\* the capacity is scaled down here so that a subdirectory can hold more
\* files than there are permits.
MAX_FILE_HANDLES == 1

(* ------------------------------ values -------------------------------- *)

\* Option<T>: None is the empty tuple, Some(x) the one-element tuple.
None == << >>

Some(x) == << x >>

\* format!("{:#}", err) of a failed process_file (main.rs:225).
ErrText == "process_file failed"

\* enum Event (main.rs:31-35).
ProgressEvent(id, file) == [type |-> "Progress", id |-> id, file |-> file]

ErrEvent(id, err) == [type |-> "Err", id |-> id, err |-> err]

QuitEvent == [type |-> "Quit"]

\* A listing of the input directory: per position either the reserved
\* directory ".MISC" or a subdirectory with nfiles files.
DirEntry == [misc : BOOLEAN, nfiles : 0 .. MaxFiles]

RECURSIVE SumFiles(_, _)
SumFiles(listing, n) ==
    IF n = 0 THEN 0 ELSE listing[n - 1].nfiles + SumFiles(listing, n - 1)

\* What read_dir can return: at most one entry is named ".MISC".
ValidListing(listing, n) ==
    /\ Cardinality({i \in 0 .. n - 1 : listing[i].misc}) <= 1
    /\ \A i \in 0 .. n - 1 : listing[i].misc => listing[i].nfiles = 0
    /\ SumFiles(listing, n) <= MaxTasks

(* ------------------------------- state -------------------------------- *)

VARIABLES
    entries,     \* IndexMap<usize, Entry> built by spawn_file_processors
    task,        \* position of the worker task of each file
    permits,     \* free permits of each subdirectory's semaphore
    queue,       \* events sent on the channel and not yet received
    rxOpen,      \* the receiver rx has not been dropped
    cancel,      \* the Ctrl-C watcher task: "watching", "done", "panicked"
    mainPc,      \* main: "start", "loop", "returned", "exited"
    progress,    \* event_loop's local counter
    loopRet,     \* event_loop's result: "pending", "Ok", "Err"
    status,      \* the i32 of Ok(status); -1 while there is none
    exitCode,    \* the process's exit code; -1 while it runs
    cursor,      \* "hidden" or "shown"
    screen,      \* the lines written by the last render_update
    reserved,    \* number of lines reserved by line 100
    row,         \* cursor row, counted from the row at event_loop's entry
    drawTop,     \* row of the first line of the last redraw
    \* history, read by the properties only
    lastEvent,   \* Some(event) last received by event_loop
    renders,     \* number of calls of render_update
    arrived,     \* every event put on the channel, in the order of the sends
    consumed,    \* every event event_loop received, in the order received
    quitSent,    \* number of Quit events put on the channel
    quitMidRun,  \* a Quit was sent while the loop ran and some subdirectory was incomplete
    doneSteps,   \* per subdirectory, how often line 115 ran
    emitted,     \* per task, the events it put on the channel
    outcome,     \* per task, the result of process_file: "none", "ok", "err"
    \* heif_to_png on one decoded image
    plane,       \* the interleaved plane: width, height, data
    pngPc,       \* "idle", "header", "chunks", "done"
    pngNext,     \* index of the next chunk of the chunked branch
    pngOut,      \* the bytes written to the png stream writer so far
    \* the destination paths of one subdirectory
    dirFiles,    \* the file names read_dir_utf8 returns for it
    dests        \* source name -> destination name, for the files handled

vars ==
    << entries, task, permits, queue, rxOpen, cancel, mainPc, progress,
       loopRet, status, exitCode, cursor, screen, reserved, row, drawTop,
       lastEvent, renders, arrived, consumed, quitSent, quitMidRun, doneSteps,
       emitted, outcome, plane, pngPc, pngNext, pngOut, dirFiles, dests >>

workerVars == << task, permits, emitted, outcome >>

loopVars ==
    << entries, progress, screen, reserved, row, drawTop, lastEvent, renders,
       consumed, doneSteps >>

mainVars == << mainPc, loopRet, status, exitCode, cursor >>

pngVars == << plane, pngPc, pngNext, pngOut >>

destVars == << dirFiles, dests >>

\* The variables of a run of main.
runVars ==
    << entries, task, permits, queue, rxOpen, cancel, mainPc, progress,
       loopRet, status, exitCode, cursor, screen, reserved, row, drawTop,
       lastEvent, renders, arrived, consumed, quitSent, quitMidRun, doneSteps,
       emitted, outcome >>

(* ------------------------- spawn_file_processors ---------------------- *)

\* Entry { name, last_file: None, last_err: None, total, completed: 0 }.
NewEntry(id, total) ==
    [name |-> id, last_file |-> None, last_err |-> None,
     total |-> total, completed |-> 0]

\* The ids are the positions of enumerate(); ".MISC" is skipped.
SpawnIds(listing, n) == {i \in 0 .. n - 1 : ~listing[i].misc}

SpawnEntries(listing, n) ==
    [id \in SpawnIds(listing, n) |-> NewEntry(id, listing[id].nfiles)]

\* One task per file: <<id, k>> is the k-th file of subdirectory id, and
\* also stands for its source path.
SpawnTasks(listing, n) ==
    {t \in SpawnIds(listing, n) \X (1 .. MaxFiles) : t[2] <= listing[t[1]].nfiles}

Ids == DOMAIN entries

Tasks == DOMAIN task

TasksOf(id) == {t \in Tasks : t[1] = id}

\* The event a task sends after process_file returned.
TaskEvent(id, file, ok) ==
    IF ok THEN ProgressEvent(id, file) ELSE ErrEvent(id, ErrText)

\* Mutant: one semaphore for the whole run, shared by all subdirectories.
CanAcquireGlobal(id) ==
    Cardinality({t \in DOMAIN task : task[t] \in {"process", "drop"}})
        < MAX_FILE_HANDLES

\* Mutant: acquire that never waits for a free permit.
CanAcquireAlways(id) == TRUE

\* semaphore.acquire() completes only while a permit is free.
CanAcquire(id) == permits[id] > 0

\* Mutant: a permit that is dropped does not return to the semaphore.
ReleasePermitLeaks(free) == free

\* The free permits after a SemaphorePermit is dropped.
ReleasePermit(free) == free + 1

\* The task holds its permit from acquire to drop(permit).
Holding(t) == task[t] \in {"process", "drop"}

Ended(t) == task[t] \in {"done", "panicked"}

\* The process runs: neither process::exit nor main's return has happened.
Alive == mainPc # "exited"

(* ------------------------------ event_loop ---------------------------- *)

\* Mutant: the counter starts at the number of all subdirectories.
InitialProgressAll(ents) == Cardinality(DOMAIN ents)

\* let mut progress = entries.values().filter(|e| e.total > 0).count();
InitialProgress(ents) ==
    Cardinality({id \in DOMAIN ents : ents[id].total > 0})

\* Mutant: the Progress arm counts the file twice.
OnProgressTwice(entry, file) ==
    [entry EXCEPT !.last_file = Some(file),
                  !.last_err = None,
                  !.completed = entry.completed + 2]

\* Mutant: the Progress arm without the reset of last_file on completion.
OnProgressKeepsFile(entry, file) ==
    [entry EXCEPT !.last_file = Some(file),
                  !.last_err = None,
                  !.completed = entry.completed + 1]

\* Event::Progress arm, the entry's fields.
OnProgress(entry, file) ==
    LET e1 == [entry EXCEPT !.last_file = Some(file),
                            !.last_err = None,
                            !.completed = entry.completed + 1]
    IN  IF e1.completed = e1.total
        THEN [e1 EXCEPT !.last_file = None]
        ELSE e1

\* Event::Progress arm, the counter: decremented when the entry completes.
ProgressAfter(prog, entry) ==
    IF entry.completed = entry.total THEN prog - 1 ELSE prog

\* Mutant: the Err arm counts the failed file as completed.
OnErrCounted(entry, err) ==
    [entry EXCEPT !.last_err = Some(err), !.completed = entry.completed + 1]

\* Event::Err arm.
OnErr(entry, err) == [entry EXCEPT !.last_err = Some(err)]

\* Mutant: a failure does not stop the loop (continue on error).
QuitFlagOnlyQuit(event) == event.type = "Quit"

\* Mutant: a Quit event does not stop the loop.
QuitFlagOnlyErr(event) == event.type = "Err"

\* The quit flag after the match.
QuitFlag(event) == event.type \in {"Quit", "Err"}

\* The entries after the match.
ApplyEvent(ents, event) ==
    CASE event.type = "Progress" ->
            [ents EXCEPT ![event.id] = OnProgress(ents[event.id], event.file)]
      [] event.type = "Err" ->
            [ents EXCEPT ![event.id] = OnErr(ents[event.id], event.err)]
      [] OTHER -> ents

\* Mutant: the two tests of lines 131-135 in the other order.
BreakStatusZeroFirst(quit, prog) ==
    IF prog = 0 THEN 0 ELSE IF quit THEN 1 ELSE -1

\* if quit { break Ok(1) } else if progress == 0 { break Ok(0) }; -1: go on.
BreakStatus(quit, prog) ==
    IF quit THEN 1 ELSE IF prog = 0 THEN 0 ELSE -1

(* ----------------------------- render_update -------------------------- *)

Color(entry) ==
    IF entry.last_err # None THEN "Red"
    ELSE IF entry.completed = entry.total THEN "LightGreen"
    ELSE "LightBlue"

RenderLine(entry) ==
    [color |-> Color(entry), name |-> entry.name,
     completed |-> entry.completed, total |-> entry.total,
     last_file |-> entry.last_file, last_err |-> entry.last_err]

\* entries.values() in insertion order, which is ascending id.
RECURSIVE IdSeq(_)
IdSeq(S) ==
    IF S = {} THEN << >>
    ELSE LET m == CHOOSE x \in S : \A y \in S : x <= y
         IN  << m >> \o IdSeq(S \ {m})

\* cursor::Up(n), on a terminal with n rows or more above the cursor.
CursorUp(r, n) == r - n

render_update(ents) ==
    [i \in 1 .. Cardinality(DOMAIN ents) |-> RenderLine(ents[IdSeq(DOMAIN ents)[i]])]

(* -------------------------------- Init -------------------------------- *)

\* The state when main reaches event_loop (main.rs:87): the tasks of
\* spawn_file_processors and the Ctrl-C watcher are spawned, none has run,
\* and cursor::Hide is written.
InitRun ==
    \E n \in 0 .. MaxDirs :
      \E listing \in [0 .. n - 1 -> DirEntry] :
        /\ ValidListing(listing, n)
        /\ entries = SpawnEntries(listing, n)
        /\ task = [t \in SpawnTasks(listing, n) |-> "acquire"]
        /\ permits = [id \in SpawnIds(listing, n) |-> MAX_FILE_HANDLES]
        /\ doneSteps = [id \in SpawnIds(listing, n) |-> 0]
        /\ emitted = [t \in SpawnTasks(listing, n) |-> << >>]
        /\ outcome = [t \in SpawnTasks(listing, n) |-> "none"]
        /\ queue = << >>
        /\ rxOpen = TRUE
        /\ cancel = "watching"
        /\ mainPc = "start"
        /\ progress = 0
        /\ loopRet = "pending"
        /\ status = -1
        /\ exitCode = -1
        /\ cursor = "hidden"
        /\ screen = << >>
        /\ reserved = 0
        /\ row = 0
        /\ drawTop = 0
        /\ lastEvent = None
        /\ renders = 0
        /\ arrived = << >>
        /\ consumed = << >>
        /\ quitSent = 0
        /\ quitMidRun = FALSE

\* No image is being converted.
PngIdle ==
    /\ plane = [width |-> 0, height |-> 0, data |-> << >>]
    /\ pngPc = "idle"
    /\ pngNext = 0
    /\ pngOut = << >>

\* No subdirectory is being listed.
DestIdle ==
    /\ dirFiles = {}
    /\ dests = << >>

Init == InitRun /\ PngIdle /\ DestIdle

(* ---------------------------- worker tasks ---------------------------- *)

\* let permit = semaphore.acquire().await.unwrap();   (main.rs:213)
TaskAcquire(t) ==
    /\ UNCHANGED << pngVars, destVars >>
    /\ Alive
    /\ task[t] = "acquire"
    /\ CanAcquire(t[1])
    /\ task' = [task EXCEPT ![t] = "process"]
    /\ permits' = [permits EXCEPT ![t[1]] = @ - 1]
    /\ UNCHANGED << queue, arrived, rxOpen, cancel, emitted, outcome >>
    /\ UNCHANGED << quitSent, quitMidRun >>
    /\ UNCHANGED << loopVars, mainVars >>

\* process_file returns Ok or Err and the task sends its event
\* (main.rs:214-229).  send fails once rx is dropped; the unwrap then panics
\* and the unwinding drops the permit.
TaskSend(t, ok) ==
    /\ UNCHANGED << pngVars, destVars >>
    /\ Alive
    /\ task[t] = "process"
    /\ outcome' = [outcome EXCEPT ![t] = IF ok THEN "ok" ELSE "err"]
    /\ IF rxOpen
       THEN /\ queue' = Append(queue, TaskEvent(t[1], t, ok))
            /\ arrived' = Append(arrived, TaskEvent(t[1], t, ok))
            /\ emitted' = [emitted EXCEPT ![t] = Append(@, TaskEvent(t[1], t, ok))]
            /\ task' = [task EXCEPT ![t] = "drop"]
            /\ UNCHANGED permits
       ELSE /\ task' = [task EXCEPT ![t] = "panicked"]
            /\ permits' = [permits EXCEPT ![t[1]] = ReleasePermit(@)]
            /\ UNCHANGED << queue, arrived, emitted >>
    /\ UNCHANGED << rxOpen, cancel, quitSent, quitMidRun >>
    /\ UNCHANGED << loopVars, mainVars >>

\* drop(permit);   (main.rs:230)
TaskDrop(t) ==
    /\ UNCHANGED << pngVars, destVars >>
    /\ Alive
    /\ task[t] = "drop"
    /\ task' = [task EXCEPT ![t] = "done"]
    /\ permits' = [permits EXCEPT ![t[1]] = ReleasePermit(@)]
    /\ UNCHANGED << queue, arrived, rxOpen, cancel, emitted, outcome >>
    /\ UNCHANGED << quitSent, quitMidRun >>
    /\ UNCHANGED << loopVars, mainVars >>

(* --------------------------- Ctrl-C watcher --------------------------- *)

\* What the bytes read from stdin parse to: Ctrl-C, another key, or bytes
\* on which byte.unwrap() or parse_event(..).unwrap() panics.
Keys == {"CtrlC", "other", "bad"}

\* Mutant: the watcher goes on watching after it sent Quit (no break).
AfterQuitSentNoBreak == "watching"

\* The watcher's state after a successful tx.send(Event::Quit): break.
AfterQuitSent == "done"

SomeIncomplete == \E id \in Ids : entries[id].completed < entries[id].total

\* One pass of the watcher's loop that read a key (main.rs:72-81).
CancelKey(key) ==
    /\ UNCHANGED << pngVars, destVars >>
    /\ Alive
    /\ cancel = "watching"
    /\ CASE key = "CtrlC" /\ rxOpen ->
              /\ queue' = Append(queue, QuitEvent)
              /\ arrived' = Append(arrived, QuitEvent)
              /\ quitSent' = quitSent + 1
              /\ quitMidRun' = (quitMidRun \/ (mainPc = "loop" /\ SomeIncomplete))
              /\ cancel' = AfterQuitSent
         [] key = "CtrlC" /\ ~rxOpen ->
              /\ cancel' = "panicked"
              /\ UNCHANGED << queue, arrived, quitSent, quitMidRun >>
         [] key = "bad" ->
              /\ cancel' = "panicked"
              /\ UNCHANGED << queue, arrived, quitSent, quitMidRun >>
         [] OTHER ->
              UNCHANGED << queue, arrived, quitSent, quitMidRun, cancel >>
    /\ UNCHANGED << rxOpen >>
    /\ UNCHANGED << workerVars, loopVars, mainVars >>

(* ------------------------------ event_loop ---------------------------- *)

\* Mutant: recv hands out the newest queued event.
RecvNewest(q) == Len(q)

\* rx.recv() hands out the oldest queued event.
RecvIndex(q) == 1

RemoveAt(q, i) == SubSeq(q, 1, i - 1) \o SubSeq(q, i + 1, Len(q))

\* A sender is alive: the watcher owns tx, every unfinished task a clone.
SendersAlive == cancel = "watching" \/ \E t \in Tasks : ~Ended(t)

\* Lines 98-100: count the non-empty subdirectories and reserve the lines.
EventLoopStart(writeOk) ==
    /\ UNCHANGED << pngVars, destVars >>
    /\ mainPc = "start"
    /\ progress' = InitialProgress(entries)
    /\ IF writeOk
       THEN /\ mainPc' = "loop"
            /\ reserved' = InitialProgress(entries)
            /\ row' = row + InitialProgress(entries)
            /\ UNCHANGED << loopRet, rxOpen >>
       ELSE /\ mainPc' = "returned"
            /\ loopRet' = "Err"
            /\ rxOpen' = FALSE
            /\ UNCHANGED << reserved, row >>
    /\ UNCHANGED << entries, screen, drawTop, lastEvent, renders, doneSteps >>
    /\ UNCHANGED << status, exitCode, cursor, consumed >>
    /\ UNCHANGED << queue, arrived, cancel, quitSent, quitMidRun, workerVars >>

\* One iteration of the loop that received an event (lines 103-135).
\* Returning drops rx.
EventLoopRecv(renderOk) ==
    /\ UNCHANGED << pngVars, destVars >>
    /\ mainPc = "loop"
    /\ queue # << >>
    /\ LET event == queue[RecvIndex(queue)]
           ents == ApplyEvent(entries, event)
           prog == IF event.type = "Progress"
                   THEN ProgressAfter(progress, ents[event.id])
                   ELSE progress
           brk == BreakStatus(QuitFlag(event), prog)
       IN  /\ queue' = RemoveAt(queue, RecvIndex(queue))
           /\ consumed' = Append(consumed, event)
           /\ lastEvent' = Some(event)
           /\ entries' = ents
           /\ progress' = prog
           /\ doneSteps' = IF event.type = "Progress" /\ prog # progress
                           THEN [doneSteps EXCEPT ![event.id] = @ + 1]
                           ELSE doneSteps
           /\ renders' = renders + 1
           /\ IF ~renderOk
              THEN /\ mainPc' = "returned"
                   /\ loopRet' = "Err"
                   /\ rxOpen' = FALSE
                   /\ UNCHANGED << screen, row, drawTop, status >>
              ELSE /\ screen' = render_update(ents)
                   /\ drawTop' = CursorUp(row, Cardinality(DOMAIN ents))
                   /\ row' = CursorUp(row, Cardinality(DOMAIN ents))
                                + Len(render_update(ents))
                   /\ IF brk = -1
                      THEN UNCHANGED << mainPc, loopRet, status, rxOpen >>
                      ELSE /\ mainPc' = "returned"
                           /\ loopRet' = "Ok"
                           /\ status' = brk
                           /\ rxOpen' = FALSE
    /\ UNCHANGED << exitCode, cursor, reserved >>
    /\ UNCHANGED << arrived, cancel, quitSent, quitMidRun, workerVars >>

\* rx.recv() returns None: the queue is empty and every sender is dropped
\* (line 103, "event receiver closed").
EventLoopClosed ==
    /\ UNCHANGED << pngVars, destVars >>
    /\ mainPc = "loop"
    /\ queue = << >>
    /\ ~SendersAlive
    /\ mainPc' = "returned"
    /\ loopRet' = "Err"
    /\ rxOpen' = FALSE
    /\ UNCHANGED << status, exitCode, cursor >>
    /\ UNCHANGED << queue, arrived, cancel, quitSent, quitMidRun >>
    /\ UNCHANGED << workerVars, loopVars >>

(* -------------------------------- main -------------------------------- *)

\* main.rs:87-90.  On Ok(status): write cursor::Show, process::exit(status).
\* On Err the `?` returns from main at once, which ends the process with
\* exit code 1.
MainExit ==
    /\ UNCHANGED << pngVars, destVars >>
    /\ mainPc = "returned"
    /\ mainPc' = "exited"
    /\ IF loopRet = "Ok"
       THEN /\ cursor' = "shown"
            /\ exitCode' = status
       ELSE /\ exitCode' = 1
            /\ UNCHANGED cursor
    /\ UNCHANGED << loopRet, status >>
    /\ UNCHANGED << queue, arrived, rxOpen, cancel, quitSent, quitMidRun >>
    /\ UNCHANGED << workerVars, loopVars >>

Next ==
    \/ \E t \in Tasks : TaskAcquire(t)
    \/ \E t \in Tasks, ok \in BOOLEAN : TaskSend(t, ok)
    \/ \E t \in Tasks : TaskDrop(t)
    \/ \E key \in Keys : CancelKey(key)
    \/ \E writeOk \in BOOLEAN : EventLoopStart(writeOk)
    \/ \E renderOk \in BOOLEAN : EventLoopRecv(renderOk)
    \/ EventLoopClosed
    \/ MainExit

Spec == Init /\ [][Next]_vars

(* ------------------------------ properties ---------------------------- *)

HoldingOf(id) == {t \in TasksOf(id) : Holding(t)}

AllComplete == \A id \in Ids : entries[id].completed = entries[id].total

\* A step of event_loop that received an event (one call of render_update).
RecvStep == renders' = renders + 1

LastType == IF lastEvent = None THEN "none" ELSE lastEvent[1].type

\* The loop is over: event_loop returned, rx is dropped.
LoopOver == mainPc \in {"returned", "exited"}

\* C1: for every subdirectory, in every reachable state, completed lies in
\* 0 .. total, total is the number of tasks spawned for it, and no step
\* decreases completed.
C1_CompletedBounded ==
    /\ [](\A id \in Ids :
            /\ 0 <= entries[id].completed
            /\ entries[id].completed <= entries[id].total
            /\ entries[id].total = Cardinality(TasksOf(id)))
    /\ [][\A id \in Ids : entries'[id].completed >= entries[id].completed]_vars

\* C1 witness: a subdirectory of two files or more has all of them counted.
C1_Witness ==
    \E id \in Ids : entries[id].total >= 2 /\ entries[id].completed = entries[id].total

\* C2: a subdirectory is shown Done (LightGreen) exactly when completed =
\* total; the completion step of line 115 runs at most once for it, and
\* exactly once when a non-empty subdirectory is complete; a subdirectory
\* that is Done or Errored (Red) is in the same state after every step.
C2_DoneOnceAndTerminal ==
    /\ [](\A id \in Ids :
            /\ (Color(entries[id]) = "LightGreen")
                  <=> (entries[id].completed = entries[id].total)
            /\ doneSteps[id] <= 1
            /\ (doneSteps[id] = 1)
                  <=> (entries[id].total > 0
                         /\ entries[id].completed = entries[id].total))
    /\ [][\A id \in Ids :
            Color(entries[id]) \in {"LightGreen", "Red"}
               => Color(entries'[id]) = Color(entries[id])]_vars

\* C2 witness: a subdirectory completed, and the loop received a later
\* event that is not the one that completed it.
C2_Witness ==
    \E id \in Ids :
        /\ doneSteps[id] = 1
        /\ LastType \in {"Progress", "Err"}
        /\ lastEvent[1].id # id

\* C3: the tasks of one subdirectory that hold a permit are never more than
\* MAX_FILE_HANDLES, and the held and the free permits add up to
\* MAX_FILE_HANDLES (no permit is held twice, none is lost).
C3_PermitsBounded ==
    \A id \in Ids :
        /\ Cardinality(HoldingOf(id)) <= MAX_FILE_HANDLES
        /\ permits[id] >= 0
        /\ permits[id] + Cardinality(HoldingOf(id)) = MAX_FILE_HANDLES

\* C3 witness: every permit of a subdirectory is held and a further task of
\* it waits in acquire.
C3_Witness ==
    \E id \in Ids :
        /\ Cardinality(HoldingOf(id)) = MAX_FILE_HANDLES
        /\ \E t \in TasksOf(id) : task[t] = "acquire"

\* C4: no task has put more than one event on the channel, and a task that
\* is past its send (or has ended) has put exactly one: Progress with its
\* subdirectory's id and its file if process_file succeeded, Err with that
\* id if it failed.  Stated for the runs in which event_loop returns no
\* error.
C4_ExactlyOneEvent ==
    loopRet # "Err"
       => \A t \in Tasks :
             /\ Len(emitted[t]) <= 1
             /\ (task[t] = "drop" \/ Ended(t))
                   => emitted[t] = << TaskEvent(t[1], t, outcome[t] = "ok") >>

\* C5: a subdirectory without files is complete from creation and has no
\* task, and whenever the loop has started and every subdirectory is
\* complete, event_loop has returned, with 0 if it returned a status after
\* a Progress event or without any event.
C5_EmptyGroupsDoNotBlock ==
    /\ \A id \in Ids :
          entries[id].total = 0
             => entries[id].completed = 0 /\ TasksOf(id) = {}
    /\ (mainPc # "start" /\ AllComplete /\ LastType \in {"none", "Progress"})
          => /\ loopRet # "pending"
             /\ loopRet = "Ok" => status = 0

\* C6: when event_loop has returned a status, it is 0 exactly when every
\* subdirectory is complete and the last received event is neither Err nor
\* Quit, and 1 exactly when the last received event is Err or Quit.
C6_StatusMatchesRunState ==
    loopRet = "Ok"
       => /\ status \in {0, 1}
          /\ (status = 0) <=> (AllComplete /\ LastType \notin {"Err", "Quit"})
          /\ (status = 1) <=> (LastType \in {"Err", "Quit"})
          /\ status = 0 => AllComplete

\* C6 witness: event_loop returned 0 for two non-empty subdirectories.
C6_Witness ==
    /\ loopRet = "Ok"
    /\ status = 0
    /\ Cardinality({id \in Ids : entries[id].total > 0}) >= 2

\* C7: the step that receives Err{id, err} sets that entry's last_err, which
\* shows it Errored (Red), and ends the loop: event_loop returns Ok(1), or
\* the write error of a failed redraw, which main turns into exit code 1.
\* The step changes no completed counter, and every subdirectory that was
\* Done is still Done, with completed = total and no last_err.
C7_FailureIsFatal ==
    /\ [][(RecvStep /\ Head(queue).type = "Err")
            => /\ entries'[Head(queue).id].last_err = Some(Head(queue).err)
               /\ Color(entries'[Head(queue).id]) = "Red"
               /\ mainPc' = "returned"
               /\ loopRet' \in {"Ok", "Err"}
               /\ loopRet' = "Ok" => status' = 1
               /\ \A id \in Ids :
                     /\ entries'[id].completed = entries[id].completed
                     /\ Color(entries[id]) = "LightGreen"
                           => /\ Color(entries'[id]) = "LightGreen"
                              /\ entries'[id].completed = entries'[id].total
                              /\ entries'[id].last_err = None]_vars
    /\ []((LastType = "Err" /\ mainPc = "exited") => exitCode = 1)

\* C7 witness: the loop returned Ok(1) on a failure in one subdirectory
\* while another, non-empty one is Done.
C7_Witness ==
    /\ LastType = "Err"
    /\ loopRet = "Ok"
    /\ status = 1
    /\ \E id \in Ids \ {lastEvent[1].id} :
          /\ entries[id].total > 0
          /\ Color(entries[id]) = "LightGreen"

\* C8 as first stated: when a Quit was sent while some subdirectory was
\* incomplete, the status event_loop returns is 1.
C8_QuitMidRunExitsOne ==
    (quitMidRun /\ loopRet = "Ok") => status = 1

\* C8 as amended: the step that receives a Quit changes no entry and ends
\* the loop, returning Ok(1) or the write error of a failed redraw (exit
\* code 1 either way); once the loop is over, no step changes the entries
\* or the screen or calls render_update.
C8_QuitConsumedStopsLoop ==
    /\ [][(RecvStep /\ Head(queue).type = "Quit")
            => /\ entries' = entries
               /\ mainPc' = "returned"
               /\ loopRet' \in {"Ok", "Err"}
               /\ loopRet' = "Ok" => status' = 1]_vars
    /\ [][LoopOver
            => /\ entries' = entries
               /\ screen' = screen
               /\ renders' = renders
               /\ lastEvent' = lastEvent]_vars
    /\ []((LastType = "Quit" /\ mainPc = "exited") => exitCode = 1)

\* C8 witness: the process exited with code 1 on a Quit received mid-run,
\* and a task that ended has its file uncounted.
C8_Witness ==
    /\ LastType = "Quit"
    /\ mainPc = "exited"
    /\ exitCode = 1
    /\ SomeIncomplete
    /\ \E t \in Tasks : Ended(t) /\ entries[t[1]].completed = 0

\* C9: when the process has ended, the cursor, hidden before the loop, is
\* shown again.
C9_CursorRestoredOnEveryExit ==
    mainPc = "exited" => cursor = "shown"

StatedColor(entry) ==
    IF entry.total = 0 THEN "Gray"
    ELSE IF entry.last_err # None THEN "Red"
    ELSE IF entry.completed = entry.total THEN "LightGreen"
    ELSE "LightBlue"

\* C11: every line of a redraw has the colour the entry's state calls for:
\* gray if total = 0, red if last_err is set, green if completed = total
\* with total > 0, blue otherwise.
C11_ColorByState ==
    \A i \in 1 .. Len(screen) :
        screen[i].color =
            StatedColor([total |-> screen[i].total,
                         completed |-> screen[i].completed,
                         last_err |-> screen[i].last_err])

\* C12: the lines reserved at the loop's start are one per subdirectory, and
\* every redraw starts at the top of that region (the row at event_loop's
\* entry), writes one line per subdirectory in ascending id order and
\* leaves the cursor on the row it was on before.
C12_FixedRegion ==
    /\ mainPc = "loop" => (reserved = Cardinality(Ids) /\ row = reserved)
    /\ (renders > 0 /\ loopRet # "Err")
          => /\ drawTop = 0
             /\ Len(screen) = Cardinality(Ids)
             /\ \A i \in 1 .. Len(screen) : screen[i].name = IdSeq(Ids)[i]
             /\ row = reserved

(* ------------------------------ heif_to_png --------------------------- *)

\* Bounds of the decoded images: width and height in pixels, padding bytes
\* at the end of each row.
MaxWidth == 2

MaxHeight == 4

MaxPad == 3

\* main is not running: the state of a run over an empty input directory.
NoRun ==
    /\ entries = << >> /\ task = << >> /\ permits = << >>
    /\ doneSteps = << >> /\ emitted = << >> /\ outcome = << >>
    /\ queue = << >> /\ rxOpen = TRUE /\ cancel = "watching"
    /\ mainPc = "start" /\ progress = 0 /\ loopRet = "pending"
    /\ status = -1 /\ exitCode = -1 /\ cursor = "hidden"
    /\ screen = << >> /\ reserved = 0 /\ row = 0 /\ drawTop = 0
    /\ lastEvent = None /\ renders = 0 /\ quitSent = 0
    /\ arrived = << >> /\ consumed = << >>
    /\ quitMidRun = FALSE

\* A plane as HEIF.decode returns it: height rows of stride bytes, of which
\* the first width * 3 are the row's RGB samples.  Byte i of the buffer has
\* the value i, so that every byte can be told from every other.
DecodedPlane(width, height, stride) ==
    [width |-> width, height |-> height,
     data |-> [i \in 1 .. stride * height |-> i]]

\* let target_size = plane.width * plane.height * 3;   (line 278)
target_size(pl) == pl.width * pl.height * 3

\* let actual_size = plane.data.len();   (line 279)
actual_size(pl) == Len(pl.data)

\* let chunk_size = actual_size / plane.height as usize;   (line 292)
chunk_size(pl) == actual_size(pl) \div pl.height

\* plane.data.chunks_exact(chunk_size): the number of chunks and the k-th.
ChunkCount(pl) == actual_size(pl) \div chunk_size(pl)

Chunk(pl, k) ==
    SubSeq(pl.data, (k - 1) * chunk_size(pl) + 1, k * chunk_size(pl))

\* The image is decoded and the png header is written (lines 271-285).
PngDecode ==
    /\ pngPc = "idle"
    /\ \E width \in 1 .. MaxWidth, height \in 1 .. MaxHeight, pad \in 0 .. MaxPad :
          plane' = DecodedPlane(width, height, width * 3 + pad)
    /\ pngPc' = "header"
    /\ UNCHANGED << pngNext, pngOut >>
    /\ UNCHANGED << runVars, destVars >>

\* Lines 286-289: the full stream, one write_all of the whole buffer.
PngFullStream ==
    /\ pngPc = "header"
    /\ target_size(plane) = actual_size(plane)
    /\ pngOut' = pngOut \o plane.data
    /\ pngPc' = "done"
    /\ UNCHANGED << plane, pngNext >>
    /\ UNCHANGED << runVars, destVars >>

\* Lines 290-293: the chunked branch is entered.
PngChunked ==
    /\ pngPc = "header"
    /\ target_size(plane) # actual_size(plane)
    /\ pngPc' = "chunks"
    /\ pngNext' = 1
    /\ UNCHANGED << plane, pngOut >>
    /\ UNCHANGED << runVars, destVars >>

\* Lines 294-296: one pass of the for loop, stream.write_all(chunk).
PngWriteChunk ==
    /\ pngPc = "chunks"
    /\ pngNext <= ChunkCount(plane)
    /\ pngOut' = pngOut \o Chunk(plane, pngNext)
    /\ pngNext' = pngNext + 1
    /\ UNCHANGED << plane, pngPc >>
    /\ UNCHANGED << runVars, destVars >>

\* The for loop is over (lines 296-300).
PngChunksDone ==
    /\ pngPc = "chunks"
    /\ pngNext > ChunkCount(plane)
    /\ pngPc' = "done"
    /\ UNCHANGED << plane, pngNext, pngOut >>
    /\ UNCHANGED << runVars, destVars >>

InitPng == NoRun /\ PngIdle /\ DestIdle

NextPng ==
    \/ PngDecode
    \/ PngFullStream
    \/ PngChunked
    \/ PngWriteChunk
    \/ PngChunksDone

SpecPng == InitPng /\ [][NextPng]_vars

RECURSIVE TrimmedRows(_, _)
\* The first width * 3 bytes of each of the first k rows of the buffer.
TrimmedRows(pl, k) ==
    IF k = 0 THEN << >>
    ELSE TrimmedRows(pl, k - 1)
           \o SubSeq(pl.data, (k - 1) * chunk_size(pl) + 1,
                     (k - 1) * chunk_size(pl) + pl.width * 3)

\* C13: when heif_to_png is done, the bytes it wrote to the encoder are
\* width * height * 3 in number and are the first width * 3 bytes of each
\* stride-sized row, for every width, height and stride >= width * 3.
C13_RowsTrimmed ==
    pngPc = "done"
       => /\ Len(pngOut) = plane.width * plane.height * 3
          /\ pngOut = TrimmedRows(plane, plane.height)

(* ------------------------- properties, continued ---------------------- *)

\* C14: the step that receives Progress{id, file} adds exactly 1 to that
\* entry's completed, clears its last_err and sets its last_file to the
\* file, or to none when completed has reached total; the entry's total and
\* name and every other entry are unchanged.
C14_ProgressEffect ==
    [][(RecvStep /\ Head(queue).type = "Progress")
         => LET id == Head(queue).id
                file == Head(queue).file
            IN  /\ entries'[id].completed = entries[id].completed + 1
                /\ entries'[id].last_err = None
                /\ entries'[id].last_file =
                      IF entries'[id].completed = entries'[id].total
                      THEN None ELSE Some(file)
                /\ entries'[id].total = entries[id].total
                /\ entries'[id].name = entries[id].name
                /\ DOMAIN entries' = DOMAIN entries
                /\ \A other \in Ids \ {id} : entries'[other] = entries[other]]_vars

\* C14 witness: in a run with two subdirectories the loop received the
\* Progress that completed one (last_file none) while the other is untouched.
C14_Witness ==
    /\ LastType = "Progress"
    /\ entries[lastEvent[1].id].completed = entries[lastEvent[1].id].total
    /\ entries[lastEvent[1].id].last_file = None
    /\ \E other \in Ids \ {lastEvent[1].id} :
          entries[other].total > 0 /\ entries[other].completed = 0

\* Every task identifier a listing within the bounds can give.
AllTaskIds == (0 .. MaxDirs - 1) \X (1 .. MaxFiles)

\* The runtime keeps running every task that can run: an acquire with a free
\* permit completes, process_file returns, drop(permit) is reached.  Nothing
\* is assumed of main, of the watcher or of the keyboard.
TaskFairness ==
    \A t \in AllTaskIds :
        /\ WF_vars(t \in Tasks /\ TaskAcquire(t))
        /\ WF_vars(t \in Tasks /\ \E ok \in BOOLEAN : TaskSend(t, ok))
        /\ WF_vars(t \in Tasks /\ TaskDrop(t))

FairSpec == Spec /\ TaskFairness

\* C15: a task that has ended holds no permit, on success, on failure and
\* on a panic alike: when every task of a subdirectory has ended, all
\* MAX_FILE_HANDLES permits are free.  And while the process runs, a task
\* waiting in acquire eventually gets its permit.
C15_PermitsReleased ==
    /\ [](\A id \in Ids :
            (\A t \in TasksOf(id) : Ended(t)) => permits[id] = MAX_FILE_HANDLES)
    /\ \A t \in AllTaskIds :
          (t \in Tasks /\ task[t] = "acquire")
             ~> ((t \in Tasks /\ task[t] # "acquire") \/ ~Alive)

\* C15 witness: a subdirectory with more files than permits, one of which
\* failed, has all its tasks ended.
C15_Witness ==
    \E id \in Ids :
        /\ Cardinality(TasksOf(id)) > MAX_FILE_HANDLES
        /\ \A t \in TasksOf(id) : Ended(t)
        /\ \E t \in TasksOf(id) : outcome[t] = "err"
        /\ \E t \in TasksOf(id) : outcome[t] = "ok"

RECURSIVE CountProgress(_, _)
\* The number of Progress events of subdirectory id in the sequence log.
CountProgress(log, id) ==
    IF log = << >> THEN 0
    ELSE CountProgress(Tail(log), id)
           + (IF Head(log).type = "Progress" /\ Head(log).id = id THEN 1 ELSE 0)

\* C16: the events received are, in order, the first of the events sent
\* (the rest is still queued); render_update is called once per received
\* event, the one that ends the loop included; and the frame on the screen
\* after a redraw that was written is the frame of the current entries, in
\* which each line's completed is the number of Progress events of that
\* subdirectory received so far.
C16_FifoAndSnapshot ==
    /\ arrived = consumed \o queue
    /\ renders = Len(consumed)
    /\ (renders > 0 /\ loopRet # "Err")
          => /\ screen = render_update(entries)
             /\ \A i \in 1 .. Len(screen) :
                   screen[i].completed = CountProgress(consumed, screen[i].name)

\* C16 witness: the loop returned on its second event or a later one, drew
\* it, and left a later event unreceived.
C16_Witness ==
    /\ Len(consumed) >= 2
    /\ loopRet = "Ok"
    /\ queue # << >>
    /\ \E i \in 1 .. Len(screen) : screen[i].completed > 0

AllHolding == {t \in Tasks : Holding(t)}

NonEmptyIds == {id \in Ids : entries[id].total > 0}

\* C17: while the process runs, a task waiting in acquire can take a permit
\* whenever fewer than MAX_FILE_HANDLES tasks of its own subdirectory hold
\* one, whatever the tasks of other subdirectories hold; the holders of the
\* whole run are at most G * MAX_FILE_HANDLES, G the number of non-empty
\* subdirectories.
C17_PoolsIndependent ==
    /\ \A t \in Tasks :
          (Alive /\ task[t] = "acquire"
                 /\ Cardinality(HoldingOf(t[1])) < MAX_FILE_HANDLES)
             => ENABLED TaskAcquire(t)
    /\ Cardinality(AllHolding) <= Cardinality(NonEmptyIds) * MAX_FILE_HANDLES

\* C17 witness: two subdirectories, and G * MAX_FILE_HANDLES tasks, more
\* than MAX_FILE_HANDLES, hold a permit at once.
C17_Witness ==
    /\ Cardinality(NonEmptyIds) = 2
    /\ Cardinality(AllHolding) = 2 * MAX_FILE_HANDLES
    /\ \A id \in NonEmptyIds : Cardinality(HoldingOf(id)) = MAX_FILE_HANDLES

(* ------------------------- destination paths -------------------------- *)

\* Files listed in the subdirectory.
MaxNames == 3

\* File names: a stem and an extension, "stem.ext".
Stems == {"IMG_1", "IMG_2"}

Exts == {"HEIC", "PNG", "TXT"}

FileNames == [stem : Stems, ext : Exts]

\* Path::with_extension: the extension is replaced, the stem kept.
with_extension(name, ext) == [name EXCEPT !.ext = ext]

\* Lines 204-208: the file name under the output directory, with the
\* extension PNG in place of HEIC.
DestOf(name) ==
    IF name.ext = "HEIC" THEN with_extension(name, "PNG") ELSE name

\* dir_path.read_dir_utf8(): the names in a directory are distinct.
DestList ==
    /\ dirFiles = {}
    /\ dests = << >>
    /\ \E names \in SUBSET FileNames :
          /\ names # {}
          /\ Cardinality(names) <= MaxNames
          /\ dirFiles' = names
    /\ UNCHANGED dests
    /\ UNCHANGED << runVars, pngVars >>

\* One pass of the for loop of line 197: the file's destination is fixed
\* and its task is spawned.
DestSpawn ==
    /\ \E name \in dirFiles \ DOMAIN dests :
          dests' = [f \in DOMAIN dests \cup {name} |->
                      IF f = name THEN DestOf(name) ELSE dests[f]]
    /\ UNCHANGED dirFiles
    /\ UNCHANGED << runVars, pngVars >>

InitDest == NoRun /\ PngIdle /\ DestIdle

NextDest == DestList \/ DestSpawn

SpecDest == InitDest /\ [][NextDest]_vars

\* C18: within one subdirectory, distinct source files have distinct
\* destination paths.
C18_DestInjective ==
    \A f, g \in DOMAIN dests : f # g => dests[f] # dests[g]

(* ------------------------- properties, continued ---------------------- *)

\* C19: in the runs in which event_loop returns a status (on the last
\* Progress, on a Quit or on a Failure), no task's tx.send(..).unwrap()
\* panics.
C19_SendNeverPanics ==
    loopRet = "Ok" => \A t \in Tasks : task[t] # "panicked"

RECURSIVE SumDoneSteps(_)
SumDoneSteps(S) ==
    IF S = {} THEN 0
    ELSE LET id == CHOOSE x \in S : TRUE
         IN  doneSteps[id] + SumDoneSteps(S \ {id})

\* C20: at the top of every iteration, progress is the number of
\* subdirectories with total > 0 and completed < total; progress is never
\* negative; it has been decremented once for each subdirectory whose
\* completed reached total and for no other; and every queued Progress or
\* Err event names an id of the entries map.
C20_ProgressCounter ==
    /\ mainPc = "loop"
          => progress = Cardinality({id \in Ids :
                                       /\ entries[id].total > 0
                                       /\ entries[id].completed < entries[id].total})
    /\ progress >= 0
    /\ mainPc # "start"
          => /\ progress = InitialProgress(entries) - SumDoneSteps(Ids)
             /\ \A id \in Ids :
                   doneSteps[id] =
                      IF entries[id].total > 0
                           /\ entries[id].completed = entries[id].total
                      THEN 1 ELSE 0
    /\ \A i \in 1 .. Len(queue) :
          queue[i].type \in {"Progress", "Err"} => queue[i].id \in Ids

\* C20 witness: at the top of an iteration one subdirectory is complete,
\* one is empty or incomplete, and an event is queued.
C20_Witness ==
    /\ mainPc = "loop"
    /\ queue # << >>
    /\ progress = 1
    /\ \E id \in Ids : doneSteps[id] = 1

====
